---- MODULE Spec2Model ----
(***************************************************************************)
(* Model of package option (src/option.go): the generic Option[T] value,   *)
(* its constructors Some and None, its accessors, and the combinators      *)
(* Filter, Map and FlatMap, together with the reflective helper isNil.     *)
(*                                                                         *)
(* A Go value is a record                                                  *)
(*   [st    : the static type category T the value is passed at,           *)
(*    kind  : the category of the dynamic value ("invalid" for an          *)
(*            interface holding nothing),                                  *)
(*    isnil : the value has no referent,                                   *)
(*    val   : the payload (an integer, or an identity of the referent)].   *)
(* An error is a record [src, n, text]: src and n identify the instance    *)
(* (errors.New returns a fresh pointer on every call), text is its         *)
(* message.                                                                *)
(***************************************************************************)
EXTENDS Integers, FiniteSets, Sequences, TLC

\* ------------------------------------------------------------ bounds
\* integers range over -MaxInt..MaxInt
MaxInt == 10
\* payloads / referent identities of the other categories range over 0..MaxVal
MaxVal == 1
\* number of distinct caller-made error instances
MaxUserErr == 1
\* number of errors.New calls Filter may make in one behaviour
MaxAlloc == 2

\* ------------------------------------------------------------ values
\* categories with no nil form
PlainKinds == {"int", "string", "bool", "struct"}
\* categories with a nil form that are not interfaces
RefKinds == {"chan", "func", "map", "ptr", "unsafeptr", "slice"}
\* static type categories an Option can be instantiated at
Types == PlainKinds \cup RefKinds \cup {"iface"}

Payloads(k) ==
  IF k = "int" THEN (0 - MaxInt)..MaxInt
  ELSE IF k = "bool" THEN 0..1
  ELSE 0..MaxVal

\* values of a concrete (non-interface) category passed at their own type
ConcreteValues ==
  UNION {{[st |-> k, kind |-> k, isnil |-> FALSE, val |-> p] : p \in Payloads(k)} :
      k \in PlainKinds} \cup
  {[st |-> k, kind |-> k, isnil |-> TRUE, val |-> 0] : k \in RefKinds} \cup
  {[st |-> k, kind |-> k, isnil |-> FALSE, val |-> p] :
      k \in RefKinds, p \in 1..MaxVal}

\* the interface value holding nothing (a nil error, a nil any)
NilIface == [st |-> "iface", kind |-> "invalid", isnil |-> TRUE, val |-> 0]

\* values passed at an interface type: nothing, or any concrete value
IfaceValues ==
  {NilIface} \cup
  {[st |-> "iface", kind |-> c.kind, isnil |-> c.isnil, val |-> c.val] :
      c \in ConcreteValues}

Values == ConcreteValues \cup IfaceValues

ValuesOf(T) == {v \in Values : v.st = T}

\* the zero value of type T (what an unset field `some T` holds)
Zero(T) ==
  IF T \in PlainKinds THEN [st |-> T, kind |-> T, isnil |-> FALSE, val |-> 0]
  ELSE IF T \in RefKinds THEN [st |-> T, kind |-> T, isnil |-> TRUE, val |-> 0]
  ELSE NilIface

\* placeholder for "no value was returned"
NoValue == [st |-> "none", kind |-> "none", isnil |-> FALSE, val |-> 0]

\* ------------------------------------------------------------ errors
\* the nil error
NilErr == [src |-> "nil", n |-> 0, text |-> ""]

ErrNilValue == [src |-> "ErrNilValue", n |-> 0, text |-> "option: value cannot be nil"]

\* the n-th error allocated by Filter's errors.New
PredicateErr(n) ==
  [src |-> "Filter", n |-> n, text |-> "option: value did not satisfy predicate"]

\* error instances made by callers with errors.New("some error")
UserErrs == {[src |-> "caller", n |-> i, text |-> "some error"] : i \in 1..MaxUserErr}

\* diagnostics a caller can pass
Errs == {NilErr, ErrNilValue} \cup UserErrs

\* ------------------------------------------------------------ isNil
\* reflect.ValueOf(value).Kind(): the value is boxed into an `any`; a value of
\* interface type is boxed as its dynamic value, and an interface holding
\* nothing yields the zero reflect.Value, whose Kind is Invalid.
ReflectKind(value) ==
  IF value.st = "iface"
    THEN (IF value = NilIface THEN "invalid" ELSE value.kind)
    ELSE value.st

\* variant of isNil: tests for the zero value (reflect's IsZero) instead of nil
isNil_IsZero(value) == value.isnil \/ value.val = 0

isNil(value) ==
  IF ReflectKind(value) \in
       {"chan", "func", "map", "ptr", "unsafeptr", "interface", "slice"}
    THEN value.isnil
    ELSE FALSE

\* ------------------------------------------------------------ Option
\* Option[T]{none, some, err}; T is the static type of the field some
TypeOf(o) == o.some.st

\* the zero Option[T]{}
ZeroOption(T) == [none |-> FALSE, some |-> Zero(T), err |-> NilErr]

\* variant of Some: makes its own error on every call
Some_OwnError(value) ==
  IF isNil(value)
    THEN [none |-> TRUE, some |-> Zero(value.st),
          err |-> [src |-> "Some", n |-> 0, text |-> "value cannot be nil"]]
    ELSE [none |-> FALSE, some |-> value, err |-> NilErr]

Some(value) ==
  IF isNil(value)
    THEN [none |-> TRUE, some |-> Zero(value.st), err |-> ErrNilValue]
    ELSE [none |-> FALSE, some |-> value, err |-> NilErr]

\* variant of None: absent only when a diagnostic is given
None_NeedsErr(T, err) == [none |-> err # NilErr, some |-> Zero(T), err |-> err]

None(T, err) == [none |-> TRUE, some |-> Zero(T), err |-> err]

IsSome(o) == ~o.none

\* variant of IsNone: decides absence by the presence of a diagnostic
IsNone_ByErr(o) == o.err # NilErr

IsNone(o) == o.none

Error(o) == IF o.none THEN o.err ELSE NilErr

\* placeholder for "no Option was returned"
NoOption == [none |-> TRUE, some |-> NoValue, err |-> NilErr]

\* ------------------------------------------------------------ results
\* variant of Unwrap: returns the field without looking at none
Unwrap_NoPanic(o) == [panicked |-> FALSE, ret |-> o.some, calls |-> 0]

\* what a call returning T does: it panics, or returns ret; calls counts the
\* invocations of the caller's callback
Unwrap(o) ==
  IF o.none
    THEN [panicked |-> TRUE, ret |-> NoValue, calls |-> 0]
    ELSE [panicked |-> FALSE, ret |-> o.some, calls |-> 0]

\* variant of UnwrapOr: falls back whenever the stored value is the zero value
UnwrapOr_ZeroFallsBack(o, def) ==
  IF o.none \/ o.some = Zero(o.some.st)
    THEN [panicked |-> FALSE, ret |-> def, calls |-> 0]
    ELSE [panicked |-> FALSE, ret |-> o.some, calls |-> 0]

UnwrapOr(o, def) ==
  IF o.none
    THEN [panicked |-> FALSE, ret |-> def, calls |-> 0]
    ELSE [panicked |-> FALSE, ret |-> o.some, calls |-> 0]

\* ------------------------------------------------------------ callbacks
\* A callback is a record [name, U, r, d]: name selects its body, U is its
\* result type, r the value and d the diagnostic its body mentions.
NoFn == [name |-> "none", U |-> "none", r |-> NoValue, d |-> NilErr]

\* producers func() T: return r
Producers(T) ==
  {[name |-> "produce", U |-> T, r |-> v, d |-> NilErr] : v \in ValuesOf(T)}

\* predicates func(T) bool over the payload of the value
Predicates ==
  {[name |-> nm, U |-> "bool", r |-> NoValue, d |-> NilErr] :
      nm \in {"positive", "isZero", "always", "never"}}

ApplyPredicate(p, v) ==
  IF p.name = "positive" THEN v.val > 0
  ELSE IF p.name = "isZero" THEN v.val = 0
  ELSE p.name = "always"

\* transforms func(T) U: "double" is n -> n*2 on integers, "const" returns r
Transforms(T) ==
  {[name |-> "const", U |-> v.st, r |-> v, d |-> NilErr] : v \in Values} \cup
  (IF T = "int"
     THEN {[name |-> "double", U |-> "int", r |-> NoValue, d |-> NilErr]}
     ELSE {})

ApplyTransform(f, v) ==
  IF f.name = "double"
    THEN [st |-> "int", kind |-> "int", isnil |-> FALSE, val |-> 2 * v.val]
    ELSE f.r

\* transforms func(T) Option[U] that build their result with Some or None:
\* "some" returns Some(r), "none" returns None[U](d)
SomeNoneTransforms ==
  {[name |-> "some", U |-> v.st, r |-> v, d |-> NilErr] : v \in Values} \cup
  {[name |-> "none", U |-> T, r |-> NoValue, d |-> e] : T \in Types, e \in Errs}

\* transforms func(T) Option[U]: those above, and "zero", which returns the
\* zero value Option[U]{} without going through a constructor
OptionTransforms ==
  SomeNoneTransforms \cup
  {[name |-> "zero", U |-> T, r |-> NoValue, d |-> NilErr] : T \in Types}

ApplyOptionTransform(g, v) ==
  IF g.name = "some" THEN Some(g.r)
  ELSE IF g.name = "none" THEN None(g.U, g.d)
  ELSE ZeroOption(g.U)

\* ------------------------------------------------------------ combinators
\* variant of UnwrapOrElse: computes the default before looking at none
UnwrapOrElse_Eager(o, f) ==
  IF o.none
    THEN [panicked |-> FALSE, ret |-> f.r, calls |-> 1]
    ELSE [panicked |-> FALSE, ret |-> o.some, calls |-> 1]

UnwrapOrElse(o, f) ==
  IF o.none
    THEN [panicked |-> FALSE, ret |-> f.r, calls |-> 1]
    ELSE [panicked |-> FALSE, ret |-> o.some, calls |-> 0]

\* variant of Filter: a rejected Option keeps its value
Filter_KeepsValue(o, predicate, fresh) ==
  IF o.none
    THEN [out |-> None(TypeOf(o), o.err), calls |-> 0, allocs |-> 0]
    ELSE IF ~ApplyPredicate(predicate, o.some)
      THEN [out |-> [none |-> TRUE, some |-> o.some, err |-> fresh],
            calls |-> 1, allocs |-> 1]
      ELSE [out |-> o, calls |-> 1, allocs |-> 0]

\* Filter returns the Option, the number of predicate calls and the number of
\* errors it allocated; fresh is the error errors.New would return now.
Filter(o, predicate, fresh) ==
  IF o.none
    THEN [out |-> None(TypeOf(o), o.err), calls |-> 0, allocs |-> 0]
    ELSE IF ~ApplyPredicate(predicate, o.some)
      THEN [out |-> None(TypeOf(o), fresh), calls |-> 1, allocs |-> 1]
      ELSE [out |-> o, calls |-> 1, allocs |-> 0]

\* variant of Map: transforms the stored field without looking at none
Map_IgnoresNone(o, f) ==
  [out |-> Some(ApplyTransform(f, o.some)), calls |-> 1]

Map(o, f) ==
  IF o.none
    THEN [out |-> None(f.U, o.err), calls |-> 0]
    ELSE [out |-> Some(ApplyTransform(f, o.some)), calls |-> 1]

\* variant of FlatMap: passes the callback's value through Some, as Map does
FlatMap_Reclassifies(o, f) ==
  IF o.none
    THEN [out |-> None(f.U, o.err), calls |-> 0]
    ELSE LET res == ApplyOptionTransform(f, o.some)
         IN [out |-> IF res.none THEN res ELSE Some(res.some), calls |-> 1]

FlatMap(o, f) ==
  IF o.none
    THEN [out |-> None(f.U, o.err), calls |-> 0]
    ELSE [out |-> ApplyOptionTransform(f, o.some), calls |-> 1]

\* ------------------------------------------------------------ receivers
\* a Go bool as a value
BoolValue(b) ==
  [st |-> "bool", kind |-> "bool", isnil |-> FALSE, val |-> IF b THEN 1 ELSE 0]

\* variant of ReceiverAfter: Unwrap takes the value out of the Option in place
ReceiverAfter_UnwrapTakes(name, o) ==
  IF name = "Unwrap" /\ ~o.none
    THEN [none |-> TRUE, some |-> Zero(o.some.st), err |-> o.err]
    ELSE o

\* The caller's Option after the call `name` on it. Every method has a value
\* receiver (func (o Option[T]) ...), Map and FlatMap take o by value, and no
\* body assigns to a field of o: the call works on a copy and the caller's
\* Option is what it was.
ReceiverAfter(name, o) == o

\* ------------------------------------------------------------ state
VARIABLES
  o,         \* the Option the caller holds
  op,        \* the call just made, "idle" between calls
  recv,      \* the Option it was called on
  argv,      \* its value argument (Some's value, UnwrapOr's default)
  arge,      \* its diagnostic argument (None's err)
  argf,      \* its callback argument
  out,       \* the Option it returned
  ret,       \* the value it returned
  panicked,  \* whether it panicked
  calls,     \* how often it invoked its callback
  self,      \* the Option it was called on, as the call left it
  rete,      \* the diagnostic it returned
  allocs     \* errors allocated by Filter so far

vars == <<o, op, recv, argv, arge, argf, out, ret, panicked, calls, self, rete, allocs>>

\* var o Option[int]
Init ==
  /\ o = ZeroOption("int")
  /\ op = "idle"
  /\ recv = NoOption
  /\ argv = NoValue
  /\ arge = NilErr
  /\ argf = NoFn
  /\ out = NoOption
  /\ ret = NoValue
  /\ panicked = FALSE
  /\ calls = 0
  /\ self = NoOption
  /\ rete = NilErr
  /\ allocs = 0

\* o = Some(value)
DoSome ==
  /\ op = "idle"
  /\ \E value \in Values :
    /\ op' = "Some"
    /\ argv' = value
    /\ out' = Some(value)
    /\ o' = out'
    /\ recv' = NoOption /\ arge' = NilErr /\ argf' = NoFn
    /\ ret' = NoValue /\ panicked' = FALSE /\ calls' = 0
    /\ self' = NoOption /\ rete' = NilErr
    /\ UNCHANGED allocs

\* o = None[T](err)
DoNone ==
  /\ op = "idle"
  /\ \E T \in Types, err \in Errs :
    /\ op' = "None"
    /\ argv' = Zero(T)
    /\ arge' = err
    /\ out' = None(T, err)
    /\ o' = out'
    /\ recv' = NoOption /\ argf' = NoFn
    /\ ret' = NoValue /\ panicked' = FALSE /\ calls' = 0
    /\ self' = NoOption /\ rete' = NilErr
    /\ UNCHANGED allocs

\* a call returning a value: o.Unwrap(), o.UnwrapOr(def), o.UnwrapOrElse(f);
\* o is afterwards what the call left of it
Returns(name, res, v, f) ==
  /\ op' = name
  /\ recv' = o
  /\ argv' = v
  /\ argf' = f
  /\ arge' = NilErr
  /\ out' = NoOption
  /\ ret' = res.ret
  /\ panicked' = res.panicked
  /\ calls' = res.calls
  /\ self' = ReceiverAfter(name, o)
  /\ o' = self'
  /\ rete' = NilErr
  /\ UNCHANGED allocs

DoUnwrap ==
  /\ op = "idle"
  /\ Returns("Unwrap", Unwrap(o), NoValue, NoFn)

DoUnwrapOr ==
  /\ op = "idle"
  /\ \E def \in ValuesOf(TypeOf(o)) :
    Returns("UnwrapOr", UnwrapOr(o, def), def, NoFn)

DoUnwrapOrElse ==
  /\ op = "idle"
  /\ \E f \in Producers(TypeOf(o)) :
    Returns("UnwrapOrElse", UnwrapOrElse(o, f), NoValue, f)

\* o.IsSome(), o.IsNone(), o.Error(): the boolean comes back in ret, the
\* diagnostic in rete
DoInspect ==
  /\ op = "idle"
  /\ \E name \in {"IsSome", "IsNone", "Error"} :
    /\ op' = name
    /\ recv' = o
    /\ ret' = IF name = "IsSome" THEN BoolValue(IsSome(o))
              ELSE IF name = "IsNone" THEN BoolValue(IsNone(o))
              ELSE NoValue
    /\ rete' = IF name = "Error" THEN Error(o) ELSE NilErr
    /\ self' = ReceiverAfter(name, o)
    /\ o' = self'
    /\ argv' = NoValue /\ arge' = NilErr /\ argf' = NoFn
    /\ out' = NoOption /\ panicked' = FALSE /\ calls' = 0
    /\ UNCHANGED allocs

\* a call returning an Option, assigned back: o = o.Filter(p), o = Map(o, f), ...;
\* self is what the call left of the Option it was given
Yields(name, res, f, n) ==
  /\ op' = name
  /\ recv' = o
  /\ argf' = f
  /\ argv' = NoValue
  /\ arge' = NilErr
  /\ out' = res.out
  /\ o' = res.out
  /\ ret' = NoValue
  /\ panicked' = FALSE
  /\ calls' = res.calls
  /\ self' = ReceiverAfter(name, o)
  /\ rete' = NilErr
  /\ allocs' = allocs + n

DoFilter ==
  /\ op = "idle"
  /\ \E predicate \in Predicates :
    LET res == Filter(o, predicate, PredicateErr(allocs + 1))
    IN /\ allocs + res.allocs <= MaxAlloc
       /\ Yields("Filter", res, predicate, res.allocs)

DoMap ==
  /\ op = "idle"
  /\ \E f \in Transforms(TypeOf(o)) :
    LET res == Map(o, f)
    IN /\ res.out.some.val \in (0 - MaxInt)..MaxInt
       /\ Yields("Map", res, f, 0)

DoFlatMap ==
  /\ op = "idle"
  /\ \E f \in OptionTransforms :
    Yields("FlatMap", FlatMap(o, f), f, 0)

\* the call has returned (or its panic was recovered) and the caller goes on
\* to its next statement, keeping only o
Continue ==
  /\ op # "idle"
  /\ op' = "idle"
  /\ recv' = NoOption /\ argv' = NoValue /\ arge' = NilErr /\ argf' = NoFn
  /\ out' = NoOption /\ ret' = NoValue /\ panicked' = FALSE /\ calls' = 0
  /\ self' = NoOption /\ rete' = NilErr
  /\ UNCHANGED <<o, allocs>>

Next ==
  \/ DoSome
  \/ DoNone
  \/ DoUnwrap
  \/ DoUnwrapOr
  \/ DoUnwrapOrElse
  \/ DoFilter
  \/ DoMap
  \/ DoFlatMap
  \/ DoInspect
  \/ Continue

Spec == Init /\ [][Next]_vars

\* the same program with callers whose FlatMap callbacks build their result
\* with Some or None only
DoFlatMapSomeNone ==
  /\ op = "idle"
  /\ \E f \in SomeNoneTransforms :
    Yields("FlatMap", FlatMap(o, f), f, 0)

NextSomeNone ==
  \/ DoSome
  \/ DoNone
  \/ DoUnwrap
  \/ DoUnwrapOr
  \/ DoUnwrapOrElse
  \/ DoFilter
  \/ DoMap
  \/ DoFlatMapSomeNone
  \/ DoInspect
  \/ Continue

SpecSomeNone == Init /\ [][NextSomeNone]_vars

\* ------------------------------------------------------------ properties
\* v has no referent: the nil pointer, func, map, slice, channel or unsafe
\* pointer, an interface holding nothing, or an interface holding one of those
NilZeroForm(v) == v.isnil

NilPtr == Zero("ptr")

IntValue(n) == [st |-> "int", kind |-> "int", isnil |-> FALSE, val |-> n]

\* C1: Some(v) of the nil zero form v of a nil-capable category is absent:
\* IsNone() is true and IsSome() is false.
C1_SomeOfNilIsAbsent ==
  (op = "Some" /\ NilZeroForm(argv)) => (IsNone(out) /\ ~IsSome(out))

\* C2: whenever Some(v) reclassifies a nil zero-form value as absent, Error()
\* is the one fixed diagnostic, and its text is "value cannot be nil".
C2_NilDiagnosticText ==
  (op = "Some" /\ NilZeroForm(argv) /\ IsNone(out)) =>
     (Error(out) = ErrNilValue /\ Error(out).text = "value cannot be nil")

\* C2 as amended: whenever Some(v) reclassifies a nil zero-form value as
\* absent, Error() is the one fixed diagnostic ErrNilValue (never nil, never a
\* caller's error), and its text is "option: value cannot be nil".
C2_NilDiagnosticIsErrNilValue ==
  (op = "Some" /\ NilZeroForm(argv) /\ IsNone(out)) =>
     /\ Error(out) = ErrNilValue
     /\ Error(out).text = "option: value cannot be nil"
     /\ Error(out) # NilErr
     /\ Error(out) \notin UserErrs

C2_Witness ==
  op = "Some" /\ argv = NilPtr /\ IsNone(out) /\ Error(out) = ErrNilValue

\* C3: Some(v) of a value whose category has no nil form (number, string,
\* boolean, struct), the zero value included, is present and Unwrap() returns v.
C3_SomeOfPlainValueIsPresent ==
  (op = "Some" /\ argv.st \in PlainKinds) =>
     /\ IsSome(out)
     /\ ~IsNone(out)
     /\ ~Unwrap(out).panicked
     /\ Unwrap(out).ret = argv

C3_Witness ==
  op = "Some" /\ argv = Zero("struct") /\ IsSome(out) /\ Unwrap(out).ret = argv

\* C4: None(d) is absent for every diagnostic d, the nil one included, and
\* Error() returns exactly d.
C4_NoneIsAbsentWithItsDiagnostic ==
  op = "None" => (IsNone(out) /\ ~IsSome(out) /\ Error(out) = arge)

C4_Witness ==
  op = "None" /\ arge = NilErr /\ IsNone(out) /\ Error(out) = NilErr

\* C5: Unwrap() on an absent Option panics and returns no value, however the
\* Option became absent; on a present Option it returns the stored value and
\* does not panic.
C5_UnwrapPanicsIffAbsent ==
  op = "Unwrap" =>
     /\ IsNone(recv) => (panicked /\ ret = NoValue)
     /\ IsSome(recv) => (~panicked /\ ret = recv.some)

C5_Witness ==
  op = "Unwrap" /\ IsNone(recv) /\ recv.err.src = "Filter" /\ panicked

\* C6: UnwrapOrElse(produce) calls produce exactly once and returns its result
\* when the Option is absent, and calls it zero times and returns the stored
\* value when the Option is present.
C6_ProducerCalledIffAbsent ==
  op = "UnwrapOrElse" =>
     /\ ~panicked
     /\ IsNone(recv) => (calls = 1 /\ ret = argf.r)
     /\ IsSome(recv) => (calls = 0 /\ ret = recv.some)

C6_Witness ==
  /\ op = "UnwrapOrElse" /\ IsSome(recv) /\ calls = 0
  /\ ret = recv.some /\ argf.r # recv.some

\* C7: UnwrapOr(f) never panics and returns the stored value when the Option is
\* present and f when it is absent.
C7_UnwrapOrNeverPanics ==
  op = "UnwrapOr" =>
     /\ ~panicked
     /\ IsSome(recv) => ret = recv.some
     /\ IsNone(recv) => ret = argv

C7_Witness ==
  /\ op = "UnwrapOr" /\ recv = Some(NilPtr) /\ IsNone(recv)
  /\ ~argv.isnil /\ ret = argv

\* C8: Filter(p) on a present Option with value v returns the Option itself
\* (present, value v, Error() nil) when p(v) is true; when p(v) is false it
\* returns an absent Option whose Error() text is exactly
\* "option: value did not satisfy predicate" and which does not carry v (its
\* value field is the zero value).
C8_FilterOnPresent ==
  (op = "Filter" /\ IsSome(recv)) =>
     IF ApplyPredicate(argf, recv.some)
       THEN /\ out = recv
            /\ IsSome(out)
            /\ out.some = recv.some
            /\ Error(out) = NilErr
       ELSE /\ IsNone(out)
            /\ ~IsSome(out)
            /\ Error(out).text = "option: value did not satisfy predicate"
            /\ out.some = Zero(TypeOf(recv))

C8_Witness ==
  /\ op = "Filter" /\ recv = Some(IntValue(0 - 5)) /\ argf.name = "positive"
  /\ IsNone(out) /\ out.some # recv.some

\* C9: Filter, Map and FlatMap of an absent Option return an absent Option
\* carrying the same diagnostic instance (nil if it was nil) and never call
\* their callback.
C9_AbsencePropagates ==
  (op \in {"Filter", "Map", "FlatMap"} /\ IsNone(recv)) =>
     (IsNone(out) /\ Error(out) = Error(recv) /\ calls = 0)

C9_Witness ==
  /\ op = "Map" /\ IsNone(recv) /\ Error(recv) \in UserErrs
  /\ TypeOf(out) # TypeOf(recv) /\ Error(out) = Error(recv)

\* C10: Map(o, f) on a present Option with value v calls f exactly once and
\* returns Some(f(v)): present, holding f(v), Error() nil when f(v) is not a
\* nil zero form; absent with the fixed nil-value diagnostic when f(v) is a
\* nil zero form of a nil-capable category.
C10_MapReclassifiesNilResults ==
  (op = "Map" /\ IsSome(recv)) =>
     LET fv == ApplyTransform(argf, recv.some)
     IN /\ calls = 1
        /\ out = Some(fv)
        /\ IF NilZeroForm(fv)
             THEN IsNone(out) /\ Error(out) = ErrNilValue
             ELSE IsSome(out) /\ out.some = fv /\ Error(out) = NilErr

\* C11: FlatMap(o, g) on a present Option with value v calls g exactly once
\* and returns g(v) verbatim: the same presence, value and diagnostic, with no
\* nil re-classification (a present result holding nil stays present) and no
\* diagnostic of FlatMap's own (an absent result carries the one g supplied).
C11_FlatMapReturnsCallbackResult ==
  (op = "FlatMap" /\ IsSome(recv)) =>
     LET res == ApplyOptionTransform(argf, recv.some)
     IN /\ calls = 1
        /\ out = res
        /\ IsSome(out) = IsSome(res)
        /\ out.some = res.some
        /\ Error(out) = Error(res)
        /\ argf.name = "zero" => (IsSome(out) /\ out.some = Zero(argf.U))
        /\ argf.name = "none" => (IsNone(out) /\ Error(out) = argf.d)

C11_Witness ==
  /\ op = "FlatMap" /\ IsSome(recv) /\ calls = 1
  /\ argf.name = "zero" /\ argf.U = "ptr"
  /\ IsSome(out) /\ out.some = NilPtr

\* the calls that are made on an Option
ReadOps == {"IsSome", "IsNone", "Error", "Unwrap", "UnwrapOr", "UnwrapOrElse"}

CallOps == ReadOps \cup {"Filter", "Map", "FlatMap"}

\* the Options of the current state: the caller's, and the one just returned
\* or just called on
Options == {o} \cup {x \in {out, recv} : x # NoOption}

\* C12: for every Option reached by Some, None, Filter, Map and FlatMap: if it
\* is present then Error() returns nil, so a diagnostic is observed only on an
\* absent Option; and exactly one of IsSome() and IsNone() is true.
C12_PresentHasNoDiagnostic ==
  /\ \A x \in Options :
       /\ IsSome(x) => Error(x) = NilErr
       /\ Error(x) # NilErr => IsNone(x)
       /\ IsSome(x) # IsNone(x)
  /\ op = "Error" => (rete # NilErr => IsNone(recv))
  /\ op = "IsSome" => ret = BoolValue(~IsNone(recv))
  /\ op = "IsNone" => ret = BoolValue(~IsSome(recv))

C12_Witness ==
  /\ op = "Error" /\ rete = NilErr /\ IsNone(recv) /\ ~IsSome(recv)
  /\ recv = None("int", NilErr)

C14_PresentNeverHoldsNil ==
  /\ \A x \in Options : IsSome(x) => ~NilZeroForm(x.some)
  /\ (op = "Unwrap" /\ ~panicked) => ~NilZeroForm(ret)

====
